---- MODULE Spec2Model ----
(***************************************************************************)
(* Model of lightningd/opening/opening.c: the channel-opening daemon.      *)
(* One engine process is a sequential program that blocks on reads from    *)
(* the supervisor (REQ_FD) and from the peer (PEER_FD).  Each action below *)
(* is the code that runs from one blocking read up to the next one.        *)
(***************************************************************************)
EXTENDS Integers, Sequences, FiniteSets, TLC

VARIABLES pc, st, trace, exit_code

vars == <<pc, st, trace, exit_code>>

(***************************************************************************)
(* Bounds of the model.                                                    *)
(***************************************************************************)
\* Seeds 1..NumSeeds are offered by the supervisor in init.
NumSeeds == 4
\* The number of distinct funding transaction ids the model draws from.
NumTxids == 1

(***************************************************************************)
(* u64 arithmetic, four 16-bit limbs, least significant first.  All        *)
(* results are reduced modulo 2^64 as the C arithmetic on u64 is.          *)
(***************************************************************************)
Base == 65536

U64(n) == <<n % Base, (n \div Base) % Base, 0, 0>>

U64Max == <<Base - 1, Base - 1, Base - 1, Base - 1>>

U64Lt(a, b) ==
    \/ a[4] < b[4]
    \/ a[4] = b[4] /\ a[3] < b[3]
    \/ a[4] = b[4] /\ a[3] = b[3] /\ a[2] < b[2]
    \/ a[4] = b[4] /\ a[3] = b[3] /\ a[2] = b[2] /\ a[1] < b[1]

\* ">" written as ">="
U64Gt_or_equal(a, b) == ~U64Lt(a, b)

U64Gt(a, b) == U64Lt(b, a)
U64Le(a, b) == ~U64Lt(b, a)
U64Ge(a, b) == ~U64Lt(a, b)

\* a * k mod 2^64, for a small multiplier k (k < 2^15)
U64MulSmall(a, k) ==
    LET p1 == a[1] * k
        p2 == a[2] * k + (p1 \div Base)
        p3 == a[3] * k + (p2 \div Base)
        p4 == a[4] * k + (p3 \div Base)
    IN  <<p1 % Base, p2 % Base, p3 % Base, p4 % Base>>

\* a + k mod 2^64, for a small addend k
U64AddSmall(a, k) ==
    LET s1 == a[1] + k
        s2 == a[2] + (s1 \div Base)
        s3 == a[3] + (s2 \div Base)
        s4 == a[4] + (s3 \div Base)
    IN  <<s1 % Base, s2 % Base, s3 % Base, s4 % Base>>

\* a - b mod 2^64
U64Sub(a, b) ==
    LET d1 == a[1] - b[1]
        b1 == IF d1 < 0 THEN 1 ELSE 0
        d2 == a[2] - b[2] - b1
        b2 == IF d2 < 0 THEN 1 ELSE 0
        d3 == a[3] - b[3] - b2
        b3 == IF d3 < 0 THEN 1 ELSE 0
        d4 == a[4] - b[4] - b3
    IN  <<d1 % Base, d2 % Base, d3 % Base, d4 % Base>>

\* a / k (integer division), for a small divisor k
U64DivSmall(a, k) ==
    LET c4 == a[4]
        c3 == (c4 % k) * Base + a[3]
        c2 == (c3 % k) * Base + a[2]
        c1 == (c2 % k) * Base + a[1]
    IN  <<c1 \div k, c2 \div k, c3 \div k, c4 \div k>>

(***************************************************************************)
(* Keys.  A scalar or a point is a symbolic record; the "type" field tells *)
(* secret material (seed, privkey, shaseed, percommit_secret) from public  *)
(* material (pubkey, sig).                                                 *)
(***************************************************************************)
LOCAL_SIDE == "LOCAL"
REMOTE_SIDE == "REMOTE"
OtherSide(side) == IF side = LOCAL_SIDE THEN REMOTE_SIDE ELSE LOCAL_SIDE

Seed(n) == [type |-> "seed", seed |-> n]
Priv(n, fld) == [type |-> "privkey", seed |-> n, field |-> fld]
Pub(n, fld) == [type |-> "pubkey", seed |-> n, field |-> fld]

SecretTypes == {"seed", "privkey", "shaseed", "percommit_secret"}

\* hkdf_sha256 over the seed: five outputs, a function of the seed alone
hkdf_sha256(seed) ==
    [f |-> Priv(seed.seed, "f"), r |-> Priv(seed.seed, "r"),
     p |-> Priv(seed.seed, "p"), d |-> Priv(seed.seed, "d"),
     shaseed |-> [type |-> "shaseed", seed |-> seed.seed]]

\* shachain_from_seed at the first index
shachain_from_seed(shaseed) ==
    [type |-> "percommit_secret", seed |-> shaseed.seed]

\* A scalar is a valid secp256k1 secret key unless it is zero or beyond the
\* group order.  Seed 1 is a seed whose funding scalar is invalid, seed 2 one
\* whose first per-commitment secret is invalid; every other seed is valid.
ValidScalar(x) ==
    /\ ~(x.type = "privkey" /\ x.seed = 1 /\ x.field = "f")
    /\ ~(x.type = "percommit_secret" /\ x.seed = 2)

\* pubkey_from_privkey / secp256k1_ec_pubkey_create: secret * G
PointOf(x) ==
    IF x.type = "privkey" THEN Pub(x.seed, x.field) ELSE Pub(x.seed, "pc")

NoPoint == [type |-> "pubkey", seed |-> 0, field |-> "uninit"]
NoPoints == [funding_pubkey |-> NoPoint, revocation_basepoint |-> NoPoint,
             payment_basepoint |-> NoPoint,
             delayed_payment_basepoint |-> NoPoint]
NoSecret == [type |-> "privkey", seed |-> 0, field |-> "uninit"]
NoSecrets == [funding_privkey |-> NoSecret,
              revocation_basepoint_secret |-> NoSecret,
              payment_basepoint_secret |-> NoSecret,
              delayed_payment_basepoint_secret |-> NoSecret]

\* derive_our_basepoints: the result, or the status_failed it ends in
derive_our_basepoints(seed) ==
    LET keys == hkdf_sha256(seed)
        secrets == [funding_privkey |-> keys.f,
                    revocation_basepoint_secret |-> keys.r,
                    payment_basepoint_secret |-> keys.p,
                    delayed_payment_basepoint_secret |-> keys.d]
        points == [funding_pubkey |-> PointOf(keys.f),
                   revocation_basepoint |-> PointOf(keys.r),
                   payment_basepoint |-> PointOf(keys.p),
                   delayed_payment_basepoint |-> PointOf(keys.d)]
        per_commit_secret == shachain_from_seed(keys.shaseed)
        base == [ok |-> TRUE, secrets |-> secrets, points |-> points,
                 shaseed |-> keys.shaseed,
                 first_per_commit |-> PointOf(per_commit_secret),
                 text |-> "", data |-> <<>>]
    IN  IF \E k \in {keys.f, keys.r, keys.p, keys.d} : ~ValidScalar(k)
        THEN [base EXCEPT !.ok = FALSE, !.points = NoPoints,
                          !.shaseed = [type |-> "shaseed", seed |-> 0],
                          !.first_per_commit = NoPoint,
                          !.text = "seed = %s", !.data = <<seed>>]
        ELSE IF ~ValidScalar(per_commit_secret)
        THEN [base EXCEPT !.ok = FALSE, !.first_per_commit = NoPoint,
                          !.text = "first_per_commit create failed, secret = %s",
                          !.data = <<per_commit_secret>>]
        ELSE base

(***************************************************************************)
(* Signatures over transactions.                                           *)
(***************************************************************************)
\* bitcoin_redeem_2of2: the two keys in lexicographic order
bitcoin_redeem_2of2(k1, k2) == {k1, k2}

\* sign_tx_input: the signature names its signer by the signer's public key
sign_tx_input(tx, wscript, privkey) ==
    [type |-> "sig", signer |-> PointOf(privkey), tx |-> tx,
     wscript |-> wscript]

\* check_tx_sig
check_tx_sig(tx, wscript, key, sig) ==
    /\ sig.type = "sig"
    /\ sig.signer = key
    /\ sig.tx = tx
    /\ sig.wscript = wscript

\* check_commit_sig looking at the signer but not at what was signed
check_commit_sig_any_tx(our_funding_key, their_funding_key, tx, remotesig) ==
    remotesig.type = "sig" /\ remotesig.signer = their_funding_key

\* check_commit_sig with the result of check_tx_sig dropped
check_commit_sig_unchecked(our_funding_key, their_funding_key, tx, remotesig) ==
    remotesig.type = "sig"

check_commit_sig(our_funding_key, their_funding_key, tx, remotesig) ==
    LET wscript == bitcoin_redeem_2of2(our_funding_key, their_funding_key)
    IN  check_tx_sig(tx, wscript, their_funding_key, remotesig)

sign_remote_commit(funding_privkey, our_funding_key, their_funding_key, tx) ==
    LET wscript == bitcoin_redeem_2of2(our_funding_key, their_funding_key)
    IN  sign_tx_input(tx, wscript, funding_privkey)

(***************************************************************************)
(* Channel configuration and the channel handle.                           *)
(***************************************************************************)
Conf(dust, inflight, reserve, htlcmin, delay, maxhtlcs, mindepth) ==
    [dust_limit_satoshis |-> dust,
     max_htlc_value_in_flight_msat |-> inflight,
     channel_reserve_satoshis |-> reserve,
     htlc_minimum_msat |-> htlcmin,
     to_self_delay |-> delay,
     max_accepted_htlcs |-> maxhtlcs,
     minimum_depth |-> mindepth]

new_channel(txid, txout, fsat, push, feerate, localconf, remoteconf, lrev, rrev, lpay, rpay, ldel, rdel, funder) ==
    [funding_txid |-> txid, funding_txout |-> txout,
     funding_satoshis |-> fsat, push_msat |-> push,
     feerate_per_kw |-> feerate,
     config |-> [LOCAL |-> localconf, REMOTE |-> remoteconf],
     revocation |-> [LOCAL |-> lrev, REMOTE |-> rrev],
     payment |-> [LOCAL |-> lpay, REMOTE |-> rpay],
     delayed |-> [LOCAL |-> ldel, REMOTE |-> rdel],
     funder |-> funder]

\* channel_tx: the first commitment transaction of one side, as a function
\* of the inputs only, stated from the point of view of the side that owns it
channel_tx(channel, per_commit, side) ==
    [type |-> "tx",
     funding_txid |-> channel.funding_txid,
     funding_txout |-> channel.funding_txout,
     funding_satoshis |-> channel.funding_satoshis,
     push_msat |-> channel.push_msat,
     feerate_per_kw |-> channel.feerate_per_kw,
     owner_is_funder |-> (channel.funder = side),
     to_self_delay |-> channel.config[OtherSide(side)].to_self_delay,
     dust_limit_satoshis |-> channel.config[side].dust_limit_satoshis,
     owner_payment |-> channel.payment[side],
     other_payment |-> channel.payment[OtherSide(side)],
     owner_delayed |-> channel.delayed[side],
     other_revocation |-> channel.revocation[OtherSide(side)],
     per_commit |-> per_commit]

(***************************************************************************)
(* Parameter checks.                                                       *)
(***************************************************************************)
\* set_reserve: 1%, rounded up
\* the 1% reserve rounded down
set_reserve_rounded_down(funding) == U64DivSmall(funding, 100)

set_reserve(funding) == U64DivSmall(U64AddSmall(funding, 99), 100)

\* 1 << 24
FundingLimit == 16777216

\* capacity_msat with the remote reserve alone
capacity_msat_of_remote_reserve(s, remoteconf) ==
    LET rmsat == U64MulSmall(remoteconf.channel_reserve_satoshis, 1000)
        cap == U64Sub(U64MulSmall(s.funding_satoshis, 1000), rmsat)
    IN  IF U64Lt(remoteconf.max_htlc_value_in_flight_msat, cap)
        THEN remoteconf.max_htlc_value_in_flight_msat
        ELSE cap

\* capacity_msat as check_config_bounds computes it
capacity_msat_of(s, remoteconf) ==
    LET rmsat == U64MulSmall(remoteconf.channel_reserve_satoshis, 1000)
        lmsat == U64MulSmall(s.localconf.channel_reserve_satoshis, 1000)
        reserve_msat == IF U64Gt(lmsat, rmsat) THEN lmsat ELSE rmsat
        cap == U64Sub(U64MulSmall(s.funding_satoshis, 1000), reserve_msat)
    IN  IF U64Lt(remoteconf.max_htlc_value_in_flight_msat, cap)
        THEN remoteconf.max_htlc_value_in_flight_msat
        ELSE cap

\* check_config_bounds without the guard before the capacity computation
check_config_bounds_no_reserve_guard(s, remoteconf) ==
    LET capacity_msat == capacity_msat_of(s, remoteconf)
    IN  IF remoteconf.to_self_delay > s.max_to_self_delay
        THEN "to_self_delay larger than max"
        ELSE IF U64Gt(U64MulSmall(U64(remoteconf.htlc_minimum_msat), 1000),
                      capacity_msat)
        THEN "Invalid htlc_minimum_msat"
        ELSE IF U64Lt(capacity_msat, s.min_effective_htlc_capacity_msat)
        THEN "Channel capacity below minimum"
        ELSE IF remoteconf.max_accepted_htlcs = 0
        THEN "max_accepted_htlcs invalid"
        ELSE IF remoteconf.max_accepted_htlcs > 511
        THEN "max_accepted_htlcs too large"
        ELSE ""

\* check_config_bounds without the limit on to_self_delay
check_config_bounds_any_delay(s, remoteconf) ==
    LET capacity_msat == capacity_msat_of(s, remoteconf)
    IN  IF U64Gt(remoteconf.channel_reserve_satoshis, s.funding_satoshis)
        THEN "Invalid channel_reserve_satoshis"
        ELSE IF U64Gt(U64MulSmall(U64(remoteconf.htlc_minimum_msat), 1000),
                      capacity_msat)
        THEN "Invalid htlc_minimum_msat"
        ELSE IF U64Lt(capacity_msat, s.min_effective_htlc_capacity_msat)
        THEN "Channel capacity below minimum"
        ELSE IF remoteconf.max_accepted_htlcs = 0
        THEN "max_accepted_htlcs invalid"
        ELSE IF remoteconf.max_accepted_htlcs > 511
        THEN "max_accepted_htlcs too large"
        ELSE ""

\* check_config_bounds without the upper limit on max_accepted_htlcs
check_config_bounds_no_htlc_limit(s, remoteconf) ==
    LET capacity_msat == capacity_msat_of(s, remoteconf)
    IN  IF remoteconf.to_self_delay > s.max_to_self_delay
        THEN "to_self_delay larger than max"
        ELSE IF U64Gt(remoteconf.channel_reserve_satoshis, s.funding_satoshis)
        THEN "Invalid channel_reserve_satoshis"
        ELSE IF U64Gt(U64MulSmall(U64(remoteconf.htlc_minimum_msat), 1000),
                      capacity_msat)
        THEN "Invalid htlc_minimum_msat"
        ELSE IF U64Lt(capacity_msat, s.min_effective_htlc_capacity_msat)
        THEN "Channel capacity below minimum"
        ELSE IF remoteconf.max_accepted_htlcs = 0
        THEN "max_accepted_htlcs invalid"
        ELSE ""

\* check_config_bounds: "" when every check passes, else the text of the
\* peer_failed(WIRE_OPENING_PEER_BAD_CONFIG) it ends in
check_config_bounds(s, remoteconf) ==
    LET capacity_msat == capacity_msat_of(s, remoteconf)
    IN  IF remoteconf.to_self_delay > s.max_to_self_delay
        THEN "to_self_delay larger than max"
        ELSE IF U64Gt(remoteconf.channel_reserve_satoshis, s.funding_satoshis)
        THEN "Invalid channel_reserve_satoshis"
        ELSE IF U64Gt(U64MulSmall(U64(remoteconf.htlc_minimum_msat), 1000),
                      capacity_msat)
        THEN "Invalid htlc_minimum_msat"
        ELSE IF U64Lt(capacity_msat, s.min_effective_htlc_capacity_msat)
        THEN "Channel capacity below minimum"
        ELSE IF remoteconf.max_accepted_htlcs = 0
        THEN "max_accepted_htlcs invalid"
        ELSE IF remoteconf.max_accepted_htlcs > 511
        THEN "max_accepted_htlcs too large"
        ELSE ""

(***************************************************************************)
(* I/O events.  trace[e] is everything engine e has read and written, in   *)
(* program order.  ch is "req_in" (read from REQ_FD), "status" (written to *)
(* STATUS_FD), "peer_in" / "peer_out" (PEER_FD), "peer_write_failed" (a    *)
(* sync_crypto_write that returned false) or "fdpass" (fdpass_send).       *)
(***************************************************************************)
Ev(ch, msg) == [ch |-> ch, msg |-> msg]

NullMsg == [type |-> "NULL"]

\* status_failed: one status message carrying the code and the formatted
\* text, then exit with a nonzero code
status_failed(code, text, data) ==
    <<Ev("status", [type |-> "status_failed", code |-> code,
                    text |-> text, data |-> data])>>

\* peer_failed: a best-effort error frame to the peer, then status_failed
peer_failed(code, text, data) ==
    <<Ev("peer_out", [type |-> "error", channel_id |-> "all",
                      text |-> text, data |-> data])>>
    \o status_failed(code, text, data)

\* sync_crypto_write of msg, wok telling whether the write succeeded
sync_crypto_write(msg, wok) ==
    IF wok THEN <<Ev("peer_out", msg)>> ELSE <<Ev("peer_write_failed", msg)>>

(***************************************************************************)
(* struct state, with the locals of main, open_channel and recv_channel    *)
(* that live across a blocking read.                                       *)
(***************************************************************************)
NoConf == Conf(U64(0), U64(0), U64(0), 0, 0, 0, 0)
NoChannel == [funder |-> "none"]
NoSig == [type |-> "sig", signer |-> NoPoint, tx |-> [type |-> "none"],
          wscript |-> {}]

InitState ==
    [cs |-> "none",
     next_per_commit |-> [LOCAL |-> NoPoint, REMOTE |-> NoPoint],
     funding_satoshis |-> U64(0), push_msat |-> U64(0),
     feerate_per_kw |-> 0,
     funding_txid |-> 0, funding_txout |-> 0,
     our_secrets |-> NoSecrets,
     shaseed |-> [type |-> "shaseed", seed |-> 0],
     localconf |-> NoConf, remoteconf |-> NoConf,
     max_to_self_delay |-> 0,
     min_effective_htlc_capacity_msat |-> U64(0),
     channel |-> NoChannel,
     seed |-> Seed(0),
     our_points |-> NoPoints,
     max_minimum_depth |-> 0, min_feerate |-> 0, max_feerate |-> 0,
     tmpid |-> "none", theirs |-> NoPoints,
     role |-> "none"]

\* The engine goes on to its next blocking read.
Goto(e, newpc, s, events) ==
    /\ pc' = [pc EXCEPT ![e] = newpc]
    /\ st' = [st EXCEPT ![e] = s]
    /\ trace' = [trace EXCEPT ![e] = @ \o events]
    /\ UNCHANGED exit_code

\* a failure that returns to its caller, which goes on to main's last read
Fail_and_return(e, s, events) ==
    /\ pc' = [pc EXCEPT ![e] = "read_exit"]
    /\ st' = [st EXCEPT ![e] = s]
    /\ trace' = [trace EXCEPT ![e] = @ \o events]
    /\ UNCHANGED exit_code

\* The engine ends in status_failed / peer_failed: exit with a nonzero code.
Fail(e, s, events) ==
    /\ pc' = [pc EXCEPT ![e] = "failed"]
    /\ st' = [st EXCEPT ![e] = s]
    /\ trace' = [trace EXCEPT ![e] = @ \o events]
    /\ exit_code' = [exit_code EXCEPT ![e] = 1]

(***************************************************************************)
(* main, up to the read of the role selector.                              *)
(***************************************************************************)
ReadInit(e, msg) ==
    /\ pc[e] = "read_init"
    /\ LET rd == <<Ev("req_in", msg)>>
       IN  IF msg = NullMsg \/ msg.type # "opening_init"
           THEN Fail(e, st[e],
                     rd \o status_failed("BAD_COMMAND", "strerror", <<>>))
           ELSE LET d == derive_our_basepoints(msg.seed)
                    s1 == [st[e] EXCEPT
                             !.localconf = msg.localconf,
                             !.max_to_self_delay = msg.max_to_self_delay,
                             !.min_effective_htlc_capacity_msat =
                                 msg.min_effective_htlc_capacity_msat,
                             !.cs = msg.cs,
                             !.seed = msg.seed,
                             !.our_secrets = d.secrets,
                             !.our_points = d.points,
                             !.shaseed = d.shaseed,
                             !.next_per_commit[LOCAL_SIDE] = d.first_per_commit]
                IN  IF ~d.ok
                    THEN Fail(e, s1,
                              rd \o status_failed("KEY_DERIVATION_FAILED",
                                                  d.text, d.data))
                    ELSE Goto(e, "read_role", s1, rd)

(***************************************************************************)
(* Peer wire messages.                                                     *)
(***************************************************************************)
towire_open_channel(tmpid, fsat, push, conf, feerate, points, fpcp) ==
    [type |-> "open_channel", temporary_channel_id |-> tmpid,
     funding_satoshis |-> fsat, push_msat |-> push,
     dust_limit_satoshis |-> conf.dust_limit_satoshis,
     max_htlc_value_in_flight_msat |-> conf.max_htlc_value_in_flight_msat,
     channel_reserve_satoshis |-> conf.channel_reserve_satoshis,
     htlc_minimum_msat |-> conf.htlc_minimum_msat,
     feerate_per_kw |-> feerate,
     to_self_delay |-> conf.to_self_delay,
     max_accepted_htlcs |-> conf.max_accepted_htlcs,
     funding_pubkey |-> points.funding_pubkey,
     revocation_basepoint |-> points.revocation_basepoint,
     payment_basepoint |-> points.payment_basepoint,
     delayed_payment_basepoint |-> points.delayed_payment_basepoint,
     first_per_commitment_point |-> fpcp]

towire_accept_channel(tmpid, conf, points, fpcp) ==
    [type |-> "accept_channel", temporary_channel_id |-> tmpid,
     dust_limit_satoshis |-> conf.dust_limit_satoshis,
     max_htlc_value_in_flight_msat |-> conf.max_htlc_value_in_flight_msat,
     channel_reserve_satoshis |-> conf.channel_reserve_satoshis,
     minimum_depth |-> conf.minimum_depth,
     htlc_minimum_msat |-> conf.htlc_minimum_msat,
     to_self_delay |-> conf.to_self_delay,
     max_accepted_htlcs |-> conf.max_accepted_htlcs,
     funding_pubkey |-> points.funding_pubkey,
     revocation_basepoint |-> points.revocation_basepoint,
     payment_basepoint |-> points.payment_basepoint,
     delayed_payment_basepoint |-> points.delayed_payment_basepoint,
     first_per_commitment_point |-> fpcp]

\* funding_created built by the builder of funding_signed
towire_funding_created_as_signed(tmpid, txid, txout, sig) ==
    [type |-> "funding_signed", temporary_channel_id |-> tmpid,
     signature |-> sig]

towire_funding_created(tmpid, txid, txout, sig) ==
    [type |-> "funding_created", temporary_channel_id |-> tmpid,
     funding_txid |-> txid, funding_output_index |-> txout,
     signature |-> sig]

towire_funding_signed(tmpid, sig) ==
    [type |-> "funding_signed", temporary_channel_id |-> tmpid,
     signature |-> sig]

(***************************************************************************)
(* Results written to the supervisor.                                      *)
(***************************************************************************)
towire_opening_open_resp(s) ==
    [type |-> "opening_open_resp",
     our_funding_pubkey |-> s.our_points.funding_pubkey,
     their_funding_pubkey |-> s.theirs.funding_pubkey]

\* the funder's terminal success, sig being the signature of funding_signed
towire_opening_open_funding_resp(s, sig) ==
    [type |-> "opening_open_funding_resp",
     remoteconf |-> s.remoteconf,
     sig |-> sig,
     cs |-> s.cs,
     revocation_basepoint |-> s.theirs.revocation_basepoint,
     payment_basepoint |-> s.theirs.payment_basepoint,
     delayed_payment_basepoint |-> s.theirs.delayed_payment_basepoint,
     next_per_commit_remote |-> s.next_per_commit[REMOTE_SIDE]]

\* accept_resp that reports a zeroed outpoint instead of the stored one
towire_opening_accept_resp_no_outpoint(s, theirsig, sig) ==
    [type |-> "opening_accept_resp",
     funding_txid |-> 0,
     funding_txout |-> 0,
     remoteconf |-> s.remoteconf,
     sig |-> theirsig,
     cs |-> s.cs,
     funding_pubkey |-> s.theirs.funding_pubkey,
     revocation_basepoint |-> s.theirs.revocation_basepoint,
     payment_basepoint |-> s.theirs.payment_basepoint,
     delayed_payment_basepoint |-> s.theirs.delayed_payment_basepoint,
     next_per_commit_remote |-> s.next_per_commit[REMOTE_SIDE]]

\* the fundee's terminal success: theirsig is the signature of
\* funding_created, sig the fundee's own signature for the funder
towire_opening_accept_resp(s, theirsig, sig) ==
    [type |-> "opening_accept_resp",
     funding_txid |-> s.funding_txid,
     funding_txout |-> s.funding_txout,
     remoteconf |-> s.remoteconf,
     sig |-> theirsig,
     cs |-> s.cs,
     funding_pubkey |-> s.theirs.funding_pubkey,
     revocation_basepoint |-> s.theirs.revocation_basepoint,
     payment_basepoint |-> s.theirs.payment_basepoint,
     delayed_payment_basepoint |-> s.theirs.delayed_payment_basepoint,
     next_per_commit_remote |-> s.next_per_commit[REMOTE_SIDE]]

\* the four points a parsed open_channel / accept_channel carries
theirs_of(msg) ==
    [funding_pubkey |-> msg.funding_pubkey,
     revocation_basepoint |-> msg.revocation_basepoint,
     payment_basepoint |-> msg.payment_basepoint,
     delayed_payment_basepoint |-> msg.delayed_payment_basepoint]

\* a comparison of channel ids that finds any two equal
structeq_always(a, b) == TRUE

\* structeq(&tmpid, &tmpid2): bytewise equality of two channel ids
structeq(a, b) == a = b

\* the temporary channel id open_channel picks: memset(&tmpid, 0xFF, ...)
TmpIdFF == "ff"

\* state->funding_txout is a u8
U8(n) == n % 256

(***************************************************************************)
(* open_channel, up to the read of accept_channel.                         *)
(***************************************************************************)
open_channel_start(e, s0, rd, wok) ==
    LET s == [s0 EXCEPT
                !.localconf.channel_reserve_satoshis =
                    set_reserve(s0.funding_satoshis),
                !.tmpid = TmpIdFF]
        msg == towire_open_channel(s.tmpid, s.funding_satoshis, s.push_msat,
                                   s.localconf, s.feerate_per_kw,
                                   s.our_points,
                                   s.next_per_commit[LOCAL_SIDE])
    IN  IF U64Ge(s.funding_satoshis, U64(FundingLimit))
        THEN Fail(e, s, rd \o peer_failed("BAD_PARAM",
                              "funding_satoshis must be < 2^24", <<>>))
        ELSE IF U64Gt(s.push_msat, U64MulSmall(s.funding_satoshis, 1000))
        THEN Fail(e, s, rd \o peer_failed("BAD_PARAM",
                              "push-msat must be <", <<>>))
        ELSE IF ~wok
        THEN Fail(e, s, rd \o sync_crypto_write(msg, wok)
                           \o peer_failed("PEER_WRITE_FAILED",
                                          "Writing open_channel", <<>>))
        ELSE Goto(e, "F_read_accept", s, rd \o sync_crypto_write(msg, wok))

(***************************************************************************)
(* recv_channel, up to the read of funding_created.  garbage is the value  *)
(* the uninitialised remoteconf->minimum_depth happens to hold.            *)
(***************************************************************************)
\* the feerate test with both bounds exclusive
check_feerate_exclusive(feerate_per_kw, min_feerate, max_feerate) ==
    IF feerate_per_kw <= min_feerate
    THEN "feerate_per_kw below minimum"
    ELSE IF feerate_per_kw >= max_feerate
    THEN "feerate_per_kw above maximum"
    ELSE ""

\* recv_channel's test of the feerate the funder dictates: "" when it is
\* acceptable, else the text of the peer_failed(PEER_BAD_FUNDING)
check_feerate(feerate_per_kw, min_feerate, max_feerate) ==
    IF feerate_per_kw < min_feerate
    THEN "feerate_per_kw below minimum"
    ELSE IF feerate_per_kw > max_feerate
    THEN "feerate_per_kw above maximum"
    ELSE ""

recv_channel_start(e, s0, rd, peer_msg, wok, garbage) ==
    IF peer_msg.type # "open_channel"
    THEN Fail(e, [s0 EXCEPT !.remoteconf.minimum_depth = garbage],
              rd \o peer_failed("PEER_BAD_INITIAL_MESSAGE",
                                "Parsing open_channel", <<>>))
    ELSE
    LET s1 == [s0 EXCEPT
                 !.tmpid = peer_msg.temporary_channel_id,
                 !.funding_satoshis = peer_msg.funding_satoshis,
                 !.push_msat = peer_msg.push_msat,
                 !.remoteconf =
                     Conf(peer_msg.dust_limit_satoshis,
                          peer_msg.max_htlc_value_in_flight_msat,
                          peer_msg.channel_reserve_satoshis,
                          peer_msg.htlc_minimum_msat,
                          peer_msg.to_self_delay,
                          peer_msg.max_accepted_htlcs,
                          garbage),
                 !.feerate_per_kw = peer_msg.feerate_per_kw,
                 !.theirs = theirs_of(peer_msg),
                 !.next_per_commit[REMOTE_SIDE] =
                     peer_msg.first_per_commitment_point]
        s2 == [s1 EXCEPT !.localconf.channel_reserve_satoshis =
                             set_reserve(s1.funding_satoshis)]
        bounds == check_config_bounds(s2, s2.remoteconf)
        feerate == check_feerate(s1.feerate_per_kw, s1.min_feerate,
                                 s1.max_feerate)
        msg == towire_accept_channel(s2.tmpid, s2.localconf, s2.our_points,
                                     s2.next_per_commit[REMOTE_SIDE])
    IN  IF U64Ge(s1.funding_satoshis, U64(FundingLimit))
        THEN Fail(e, s1, rd \o peer_failed("PEER_BAD_FUNDING",
                              "funding_satoshis too large", <<>>))
        ELSE IF U64Gt(s1.push_msat, U64MulSmall(s1.funding_satoshis, 1000))
        THEN Fail(e, s1, rd \o peer_failed("PEER_BAD_FUNDING",
                              "push_msat too large", <<>>))
        ELSE IF feerate # ""
        THEN Fail(e, s1, rd \o peer_failed("PEER_BAD_FUNDING", feerate, <<>>))
        ELSE IF bounds # ""
        THEN Fail(e, s2, rd \o peer_failed("PEER_BAD_CONFIG", bounds, <<>>))
        ELSE IF ~wok
        THEN Fail(e, s2, rd \o sync_crypto_write(msg, wok)
                            \o peer_failed("PEER_WRITE_FAILED",
                                           "Writing accept_channel", <<>>))
        ELSE Goto(e, "E_read_created", s2,
                  rd \o sync_crypto_write(msg, wok))

(***************************************************************************)
(* main: the read of the role selector and the dispatch on it.             *)
(***************************************************************************)
ReadRole(e, msg, wok, garbage) ==
    /\ pc[e] = "read_role"
    /\ LET rd == <<Ev("req_in", msg)>>
       IN  IF msg.type = "opening_open"
           THEN open_channel_start(e,
                    [st[e] EXCEPT !.funding_satoshis = msg.funding_satoshis,
                                  !.push_msat = msg.push_msat,
                                  !.feerate_per_kw = msg.feerate_per_kw,
                                  !.max_minimum_depth = msg.max_minimum_depth,
                                  !.role = "funder"],
                    rd, wok)
           ELSE IF msg.type = "opening_accept"
           THEN recv_channel_start(e,
                    [st[e] EXCEPT !.min_feerate = msg.min_feerate,
                                  !.max_feerate = msg.max_feerate,
                                  !.role = "fundee"],
                    rd, msg.peer_msg, wok, garbage)
           ELSE \* neither parses: main falls through to fdpass_send
                Goto(e, "read_exit", st[e], rd \o <<Ev("fdpass", NullMsg)>>)

(***************************************************************************)
(* open_channel: accept_channel read, up to the read of open_funding.      *)
(***************************************************************************)
RecvAcceptChannel(e, msg) ==
    /\ pc[e] = "F_read_accept"
    /\ LET rd == <<Ev("peer_in", msg)>>
           s0 == st[e]
       IN  IF msg = NullMsg
           THEN Fail(e, s0, rd \o peer_failed("PEER_READ_FAILED",
                                  "Reading accept_channel", <<>>))
           ELSE IF msg.type # "accept_channel"
           THEN Fail(e, s0, rd \o peer_failed("PEER_READ_FAILED",
                                  "Parsing accept_channel", <<>>))
           ELSE
           LET s == [s0 EXCEPT
                       !.remoteconf =
                           Conf(msg.dust_limit_satoshis,
                                msg.max_htlc_value_in_flight_msat,
                                msg.channel_reserve_satoshis,
                                msg.htlc_minimum_msat,
                                msg.to_self_delay,
                                msg.max_accepted_htlcs,
                                msg.minimum_depth),
                       !.theirs = theirs_of(msg),
                       !.next_per_commit[REMOTE_SIDE] =
                           msg.first_per_commitment_point]
               bounds == check_config_bounds(s, s.remoteconf)
               resp == towire_opening_open_resp(s)
           IN  IF ~structeq(s.tmpid, msg.temporary_channel_id)
               THEN Fail(e, s, rd \o peer_failed("PEER_READ_FAILED",
                                     "accept_channel ids don't match", <<>>))
               ELSE IF s.remoteconf.minimum_depth > s.max_minimum_depth
               THEN Fail(e, s, rd \o peer_failed("BAD_PARAM",
                                     "minimum_depth larger than max", <<>>))
               ELSE IF bounds # ""
               THEN Fail(e, s, rd \o peer_failed("PEER_BAD_CONFIG",
                                                  bounds, <<>>))
               ELSE Goto(e, "F_read_funding", s,
                         rd \o <<Ev("status", resp)>>)

(***************************************************************************)
(* open_channel: open_funding read, up to the read of funding_signed.      *)
(***************************************************************************)
ReadOpenFunding(e, msg, wok) ==
    /\ pc[e] = "F_read_funding"
    /\ LET rd == <<Ev("req_in", msg)>>
           s0 == st[e]
       IN  IF msg.type # "opening_open_funding"
           THEN Fail(e, s0, rd \o peer_failed("PEER_READ_FAILED",
                                  "Expected valid opening_open_funding",
                                  <<>>))
           ELSE
           LET s1 == [s0 EXCEPT !.funding_txid = msg.funding_txid,
                                !.funding_txout = U8(msg.funding_txout)]
               s == [s1 EXCEPT !.channel =
                        new_channel(s1.funding_txid, s1.funding_txout,
                                    s1.funding_satoshis, s1.push_msat,
                                    s1.feerate_per_kw,
                                    s1.localconf, s1.remoteconf,
                                    s1.our_points.revocation_basepoint,
                                    s1.theirs.revocation_basepoint,
                                    s1.our_points.payment_basepoint,
                                    s1.theirs.payment_basepoint,
                                    s1.our_points.delayed_payment_basepoint,
                                    s1.theirs.delayed_payment_basepoint,
                                    LOCAL_SIDE)]
               tx == channel_tx(s.channel, s.next_per_commit[REMOTE_SIDE],
                                REMOTE_SIDE)
               sig == sign_remote_commit(s.our_secrets.funding_privkey,
                                         s.our_points.funding_pubkey,
                                         s.theirs.funding_pubkey, tx)
               out == towire_funding_created(s.tmpid, s.funding_txid,
                                             s.funding_txout, sig)
           IN  IF ~wok
               THEN Fail(e, s, rd \o sync_crypto_write(out, wok)
                                  \o peer_failed("PEER_WRITE_FAILED",
                                         "Writing funding_created", <<>>))
               ELSE Goto(e, "F_read_signed", s,
                         rd \o sync_crypto_write(out, wok))

(***************************************************************************)
(* open_channel: funding_signed read to the end, then main's fdpass_send.  *)
(***************************************************************************)
RecvFundingSigned(e, msg) ==
    /\ pc[e] = "F_read_signed"
    /\ LET rd == <<Ev("peer_in", msg)>>
           s == st[e]
       IN  IF msg = NullMsg
           THEN Fail(e, s, rd \o peer_failed("PEER_READ_FAILED",
                                 "Reading funding_signed", <<>>))
           ELSE IF msg.type # "funding_signed"
           THEN Fail(e, s, rd \o peer_failed("PEER_READ_FAILED",
                                 "Parsing funding_signed", <<>>))
           ELSE IF ~structeq(s.tmpid, msg.temporary_channel_id)
           THEN Fail(e, s, rd \o peer_failed("PEER_READ_FAILED",
                                 "funding_signed ids don't match", <<>>))
           ELSE
           LET sig == msg.signature
               tx == channel_tx(s.channel, s.next_per_commit[LOCAL_SIDE],
                                LOCAL_SIDE)
               resp == towire_opening_open_funding_resp(s, sig)
           IN  IF ~check_commit_sig(s.our_points.funding_pubkey,
                                    s.theirs.funding_pubkey, tx, sig)
               THEN Fail(e, s, rd \o peer_failed("PEER_READ_FAILED",
                                     "Bad signature", <<sig>>))
               ELSE Goto(e, "read_exit", s,
                         rd \o <<Ev("status", resp),
                                 Ev("fdpass", NullMsg)>>)

(***************************************************************************)
(* recv_channel: funding_created read to the end, then main's fdpass_send. *)
(* garbage is the value the uninitialised local sig holds when the bad     *)
(* signature message formats it.                                           *)
(***************************************************************************)
RecvFundingCreated(e, msg, wok, garbage) ==
    /\ pc[e] = "E_read_created"
    /\ LET rd == <<Ev("peer_in", msg)>>
           s0 == st[e]
       IN  IF msg = NullMsg
           THEN Fail(e, s0, rd \o peer_failed("PEER_READ_FAILED",
                                  "Reading funding_created", <<>>))
           ELSE IF msg.type # "funding_created"
           THEN Fail(e, s0, rd \o peer_failed("PEER_READ_FAILED",
                                  "Parsing funding_created", <<>>))
           ELSE
           LET s1 == [s0 EXCEPT !.funding_txid = msg.funding_txid,
                                !.funding_txout =
                                    U8(msg.funding_output_index)]
               theirsig == msg.signature
               s == [s1 EXCEPT !.channel =
                        new_channel(s1.funding_txid, s1.funding_txout,
                                    s1.funding_satoshis, s1.push_msat,
                                    s1.feerate_per_kw,
                                    s1.localconf, s1.remoteconf,
                                    s1.our_points.revocation_basepoint,
                                    s1.theirs.revocation_basepoint,
                                    s1.our_points.payment_basepoint,
                                    s1.theirs.payment_basepoint,
                                    s1.our_points.delayed_payment_basepoint,
                                    s1.theirs.delayed_payment_basepoint,
                                    REMOTE_SIDE)]
               ltx == channel_tx(s.channel, s.next_per_commit[LOCAL_SIDE],
                                 LOCAL_SIDE)
               rtx == channel_tx(s.channel, s.next_per_commit[REMOTE_SIDE],
                                 REMOTE_SIDE)
               sig == sign_remote_commit(s.our_secrets.funding_privkey,
                                         s.our_points.funding_pubkey,
                                         s.theirs.funding_pubkey, rtx)
               out == towire_funding_signed(s.tmpid, sig)
               resp == towire_opening_accept_resp(s, theirsig, sig)
           IN  IF ~structeq(s1.tmpid, msg.temporary_channel_id)
               THEN Fail(e, s1, rd \o peer_failed("PEER_READ_FAILED",
                                      "funding_created ids don't match",
                                      <<>>))
               ELSE IF ~check_commit_sig(s.our_points.funding_pubkey,
                                         s.theirs.funding_pubkey, ltx,
                                         theirsig)
               THEN Fail(e, s, rd \o peer_failed("PEER_READ_FAILED",
                                     "Bad signature", <<garbage>>))
               ELSE IF ~wok
               THEN Fail(e, s, rd \o sync_crypto_write(out, wok)
                                  \o peer_failed("PEER_WRITE_FAILED",
                                         "Writing funding_signed", <<>>))
               ELSE Goto(e, "read_exit", s,
                         rd \o sync_crypto_write(out, wok)
                            \o <<Ev("status", resp),
                                 Ev("fdpass", NullMsg)>>)

(***************************************************************************)
(* main: the read of exit_req.                                             *)
(***************************************************************************)
\* the last read of main tried a second time before giving up
ReadExit_read_again(e, msg) ==
    /\ pc[e] = "read_exit"
    /\ LET rd == <<Ev("req_in", msg)>>
       IN  IF msg = NullMsg \/ msg.type # "opening_exit_req"
           THEN Fail(e, st[e],
                     rd \o rd \o status_failed("BAD_COMMAND",
                                               "Expected exit req", <<>>))
           ELSE /\ pc' = [pc EXCEPT ![e] = "exited"]
                /\ exit_code' = [exit_code EXCEPT ![e] = 0]
                /\ trace' = [trace EXCEPT ![e] = @ \o rd]
                /\ UNCHANGED st

\* the last read of main taking any message that arrives for exit_req
ReadExit_any_message(e, msg) ==
    /\ pc[e] = "read_exit"
    /\ LET rd == <<Ev("req_in", msg)>>
       IN  IF msg = NullMsg
           THEN Fail(e, st[e],
                     rd \o status_failed("BAD_COMMAND", "strerror", <<>>))
           ELSE /\ pc' = [pc EXCEPT ![e] = "exited"]
                /\ exit_code' = [exit_code EXCEPT ![e] = 0]
                /\ trace' = [trace EXCEPT ![e] = @ \o rd]
                /\ UNCHANGED st

ReadExit(e, msg) ==
    /\ pc[e] = "read_exit"
    /\ LET rd == <<Ev("req_in", msg)>>
       IN  IF msg = NullMsg
           THEN Fail(e, st[e],
                     rd \o status_failed("BAD_COMMAND", "strerror", <<>>))
           ELSE IF msg.type # "opening_exit_req"
           THEN Fail(e, st[e],
                     rd \o status_failed("BAD_COMMAND",
                                         "Expected exit req", <<>>))
           ELSE /\ pc' = [pc EXCEPT ![e] = "exited"]
                /\ exit_code' = [exit_code EXCEPT ![e] = 0]
                /\ trace' = [trace EXCEPT ![e] = @ \o rd]
                /\ UNCHANGED st

(***************************************************************************)
(* The environment: what the supervisor and the peer may send.             *)
(***************************************************************************)
Garbage == [type |-> "garbage"]

ExitReq == [type |-> "opening_exit_req"]

\* a configuration that passes every check for a channel of 1000000 satoshi
GoodConf == Conf(U64(546), U64(1000000000), U64(10000), 1, 144, 483, 3)

\* configurations a peer may send: the good one, and one per check that fails
RemoteConfs ==
    {GoodConf,
     [GoodConf EXCEPT !.to_self_delay = 1009],
     [GoodConf EXCEPT !.channel_reserve_satoshis = U64(1000001)],
     [GoodConf EXCEPT !.channel_reserve_satoshis = U64Max],
     [GoodConf EXCEPT !.htlc_minimum_msat = 1000000],
     [GoodConf EXCEPT !.max_htlc_value_in_flight_msat = U64(999999)],
     [GoodConf EXCEPT !.max_accepted_htlcs = 0],
     [GoodConf EXCEPT !.max_accepted_htlcs = 512],
     [GoodConf EXCEPT !.minimum_depth = 11]}

InitMsg(conf, mincap, seed) ==
    [type |-> "opening_init", localconf |-> conf,
     max_to_self_delay |-> 1008,
     min_effective_htlc_capacity_msat |-> mincap,
     cs |-> "cs", seed |-> seed]

\* the supervisor's own configuration; its channel_reserve_satoshis is
\* overwritten by set_reserve
SupConfs == {[GoodConf EXCEPT !.channel_reserve_satoshis = U64(12345)]}

\* init messages of a supervisor: one with a capacity floor of 1000 satoshi,
\* and one that offers no reserve of its own and lets small channels through
SupInits(seed) ==
    {InitMsg(c, U64(1000000), seed) : c \in SupConfs}
    \cup {InitMsg([GoodConf EXCEPT !.channel_reserve_satoshis = U64(0)],
                  U64(98000), seed)}

\* a peer that asks for no reserve
ZeroReserveConf == [GoodConf EXCEPT !.channel_reserve_satoshis = U64(0)]

\* small funding amounts around the rounding of the 1% reserve
SmallFundings == {U64(99), U64(100), U64(101), U64(200)}

OpenCmd(fsat, push) ==
    [type |-> "opening_open", funding_satoshis |-> fsat, push_msat |-> push,
     feerate_per_kw |-> 15000, max_minimum_depth |-> 10]

\* an amount of satoshi, in millisatoshi
Msat(sat) == U64MulSmall(U64(sat), 1000)

OpenCmds ==
    {OpenCmd(U64(1000000), U64(0)),
     OpenCmd(U64(FundingLimit - 1), Msat(FundingLimit - 1)),
     OpenCmd(U64(FundingLimit - 1), U64AddSmall(Msat(FundingLimit - 1), 1)),
     OpenCmd(U64(1000000), U64(1000000000)),
     OpenCmd(U64(1000), U64(1000001)),
     OpenCmd(U64(FundingLimit - 1), U64(0)),
     OpenCmd(U64(FundingLimit), U64(0))}
    \cup {OpenCmd(f, U64(0)) : f \in SmallFundings}
    \cup {OpenCmd(U64Max, U64(0))}

AcceptCmd(peer_msg) ==
    [type |-> "opening_accept", min_feerate |-> 1000, max_feerate |-> 20000,
     peer_msg |-> peer_msg]

\* the keys of a peer that is not an engine of this model
AdvSeed == NumSeeds + 1
AdvPoints == [funding_pubkey |-> Pub(AdvSeed, "f"),
              revocation_basepoint |-> Pub(AdvSeed, "r"),
              payment_basepoint |-> Pub(AdvSeed, "p"),
              delayed_payment_basepoint |-> Pub(AdvSeed, "d")]
AdvPerCommit == Pub(AdvSeed, "pc")

AdvOpenChannel(tmpid, fsat, push, conf, feerate) ==
    towire_open_channel(tmpid, fsat, push, conf, feerate, AdvPoints,
                        AdvPerCommit)

\* open_channel messages a peer may have sent: a good one, and variations of
\* it in one field at a time
AdvOpenChannels ==
    {AdvOpenChannel(id, U64(1000000), U64(0), GoodConf, 15000) :
        id \in {TmpIdFF, "aa"}}
    \cup {AdvOpenChannel("aa", f, U64(0), GoodConf, 15000) :
             f \in {U64(FundingLimit - 1), U64(FundingLimit), U64Max}}
    \cup {AdvOpenChannel("aa", U64(1000000), p, GoodConf, 15000) :
             p \in {U64(1000000000), U64(1000000001)}}
    \cup {AdvOpenChannel("aa", U64(FundingLimit - 1), p, GoodConf, 15000) :
             p \in {Msat(FundingLimit - 1),
                    U64AddSmall(Msat(FundingLimit - 1), 1)}}
    \cup {AdvOpenChannel("aa", U64(1000000), U64(0), GoodConf, r) :
             r \in {999, 1000, 20000, 20001}}
    \cup {AdvOpenChannel("aa", U64(1000000), U64(0), c, 15000) :
             c \in RemoteConfs}
    \cup {AdvOpenChannel("aa", f, U64(0), ZeroReserveConf, 15000) :
             f \in SmallFundings}

AdvAcceptChannels ==
    {towire_accept_channel(TmpIdFF, c, AdvPoints, AdvPerCommit) :
        c \in RemoteConfs}
    \cup {towire_accept_channel("aa", GoodConf, AdvPoints, AdvPerCommit)}
    \cup {towire_accept_channel(TmpIdFF, ZeroReserveConf, AdvPoints,
                                AdvPerCommit)}

\* funding output indexes on offer: one that fits a u8 and one that does not
TxOuts == {0, 257}

OpenFundings ==
    {[type |-> "opening_open_funding", funding_txid |-> t,
      funding_txout |-> o] : t \in 1..NumTxids, o \in TxOuts}

\* The engine's own first commitment tx once the outpoint is known.
LocalTxOf(s, txid, txout, funder) ==
    channel_tx(new_channel(txid, txout, s.funding_satoshis, s.push_msat,
                           s.feerate_per_kw, s.localconf, s.remoteconf,
                           s.our_points.revocation_basepoint,
                           s.theirs.revocation_basepoint,
                           s.our_points.payment_basepoint,
                           s.theirs.payment_basepoint,
                           s.our_points.delayed_payment_basepoint,
                           s.theirs.delayed_payment_basepoint, funder),
               s.next_per_commit[LOCAL_SIDE], LOCAL_SIDE)

\* A signature by the peer's funding key over tx.
AdvSig(s, tx) ==
    sign_remote_commit(Priv(AdvSeed, "f"), s.theirs.funding_pubkey,
                       s.our_points.funding_pubkey, tx)

\* funding_signed messages a peer may send to the funder in state s: with a
\* signature that verifies, with one over another transaction, with the
\* funder's own signature sent back, with another channel id
AdvFundingSigneds(s, sent) ==
    LET tx == channel_tx(s.channel, s.next_per_commit[LOCAL_SIDE],
                         LOCAL_SIDE)
        other == channel_tx(s.channel, s.next_per_commit[REMOTE_SIDE],
                            REMOTE_SIDE)
    IN  {towire_funding_signed(TmpIdFF, AdvSig(s, tx)),
         towire_funding_signed("aa", AdvSig(s, tx)),
         towire_funding_signed(TmpIdFF, AdvSig(s, other))}
        \cup {towire_funding_signed(TmpIdFF, m.signature) : m \in sent}

\* funding_created messages a peer may send to the fundee in state s
AdvFundingCreateds(s) ==
    {towire_funding_created(id, t, o,
                            AdvSig(s, LocalTxOf(s, t, signed, REMOTE_SIDE))) :
        id \in {s.tmpid, "zz"}, t \in 1..NumTxids,
        o \in TxOuts, signed \in {0, 1, 257}}

\* Values an uninitialised u32 may hold.
GarbageDepths == {0, 7}

\* Values the uninitialised signature of recv_channel may hold when it is
\* formatted: arbitrary bytes, or what an earlier stack frame left there
\* (derive_our_basepoints keeps the derived keys in a local).
GarbageSigs(s) == {NoSig, s.our_secrets.funding_privkey}

(***************************************************************************)
(* Specification 1: one engine, with a supervisor and a peer that may send *)
(* anything.                                                               *)
(***************************************************************************)
InitOf(engines) ==
    /\ pc = [e \in engines |-> "read_init"]
    /\ st = [e \in engines |-> InitState]
    /\ trace = [e \in engines |-> <<>>]
    /\ exit_code = [e \in engines |-> -1]

Init == InitOf({"solo"})

SupInit(e) ==
    \E msg \in {NullMsg, Garbage}
               \cup UNION {SupInits(Seed(n)) : n \in 1..NumSeeds} :
        ReadInit(e, msg)

SupRole(e) ==
    \E msg \in OpenCmds
               \cup {AcceptCmd(m) : m \in AdvOpenChannels \cup {Garbage}}
               \cup {NullMsg, Garbage},
       wok \in BOOLEAN, g \in GarbageDepths :
        ReadRole(e, msg, wok, g)

PeerAccept(e) ==
    \E msg \in AdvAcceptChannels \cup {NullMsg, Garbage} :
        RecvAcceptChannel(e, msg)

SupFunding(e) ==
    \E msg \in OpenFundings \cup {NullMsg, Garbage}, wok \in BOOLEAN :
        ReadOpenFunding(e, msg, wok)

\* the funding_created messages engine e has written to the peer
SentFundingCreated(e) ==
    {trace[e][i].msg : i \in {j \in 1..Len(trace[e]) :
        /\ trace[e][j].ch = "peer_out"
        /\ trace[e][j].msg.type = "funding_created"}}

PeerSigned(e) ==
    /\ pc[e] = "F_read_signed"
    /\ \E msg \in AdvFundingSigneds(st[e], SentFundingCreated(e))
                  \cup {NullMsg, Garbage} :
        RecvFundingSigned(e, msg)

PeerCreated(e) ==
    /\ pc[e] = "E_read_created"
    /\ \E msg \in AdvFundingCreateds(st[e]) \cup {NullMsg, Garbage},
          wok \in BOOLEAN, g \in GarbageSigs(st[e]) :
        RecvFundingCreated(e, msg, wok, g)

SupExit(e) ==
    \E msg \in {ExitReq, NullMsg, Garbage} : ReadExit(e, msg)

Next ==
    \/ SupInit("solo")
    \/ SupRole("solo")
    \/ PeerAccept("solo")
    \/ SupFunding("solo")
    \/ PeerSigned("solo")
    \/ PeerCreated("solo")
    \/ SupExit("solo")

Spec == Init /\ [][Next]_vars

(***************************************************************************)
(* Specification 2: a funder engine and a fundee engine joined by a        *)
(* reliable in-order stream, each with a supervisor that sends well-formed *)
(* commands.  The fundee's supervisor hands it the open_channel the funder *)
(* wrote.                                                                  *)
(***************************************************************************)
PeerOf(e) == IF e = "funder" THEN "fundee" ELSE "funder"

PeerOut(e) == SelectSeq(trace[e], LAMBDA ev : ev.ch = "peer_out")

\* how many messages of its peer engine e has consumed
Consumed(e) ==
    Len(SelectSeq(trace[e], LAMBDA ev :
            \/ ev.ch = "peer_in"
            \/ ev.ch = "req_in" /\ ev.msg.type = "opening_accept"))

\* what a read of the peer stream returns to e now: the next message, or
\* end of stream once the peer's process has died
Incoming(e) ==
    IF Len(PeerOut(PeerOf(e))) > Consumed(e)
    THEN {PeerOut(PeerOf(e))[Consumed(e) + 1].msg}
    ELSE IF pc[PeerOf(e)] = "failed" THEN {NullMsg} ELSE {}

InitPair == InitOf({"funder", "fundee"})

PairOpenCmds ==
    {OpenCmd(U64(1000000), U64(0)),
     OpenCmd(U64(FundingLimit - 1), U64(1000000000))}

PairInit(e) ==
    \E c \in SupConfs, n \in 3..NumSeeds : ReadInit(e, InitMsg(c, U64(1000000), Seed(n)))

PairOpen ==
    \E cmd \in PairOpenCmds : ReadRole("funder", cmd, TRUE, 0)

PairAccept ==
    /\ pc["fundee"] = "read_role"
    /\ \E m \in Incoming("fundee") \ {NullMsg}, g \in GarbageDepths :
        ReadRole("fundee", AcceptCmd(m), TRUE, g)

PairRecvAccept ==
    /\ pc["funder"] = "F_read_accept"
    /\ \E m \in Incoming("funder") : RecvAcceptChannel("funder", m)

PairFunding ==
    \E msg \in OpenFundings : ReadOpenFunding("funder", msg, TRUE)

PairRecvCreated ==
    /\ pc["fundee"] = "E_read_created"
    /\ \E m \in Incoming("fundee"), g \in GarbageSigs(st["fundee"]) :
        RecvFundingCreated("fundee", m, TRUE, g)

PairRecvSigned ==
    /\ pc["funder"] = "F_read_signed"
    /\ \E m \in Incoming("funder") : RecvFundingSigned("funder", m)

PairExit(e) == ReadExit(e, ExitReq)

NextPair ==
    \/ PairInit("funder")
    \/ PairInit("fundee")
    \/ PairOpen
    \/ PairAccept
    \/ PairRecvAccept
    \/ PairFunding
    \/ PairRecvCreated
    \/ PairRecvSigned
    \/ PairExit("funder")
    \/ PairExit("fundee")

SpecPair == InitPair /\ [][NextPair]_vars

(***************************************************************************)
(* Observations on a run.                                                  *)
(***************************************************************************)
IsSuccess(ev) ==
    /\ ev.ch = "status"
    /\ ev.msg.type \in {"opening_open_funding_resp", "opening_accept_resp"}

IsFailure(ev) == ev.ch = "status" /\ ev.msg.type = "status_failed"

IsErrorFrame(ev) ==
    ev.ch \in {"peer_out", "peer_write_failed"} /\ ev.msg.type = "error"

SuccessIdx(e) == {i \in 1..Len(trace[e]) : IsSuccess(trace[e][i])}

Succeeded(e) == SuccessIdx(e) # {}

FailedWith(e, code) ==
    \E i \in 1..Len(trace[e]) :
        IsFailure(trace[e][i]) /\ trace[e][i].msg.code = code

FailedSaying(e, text) ==
    \E i \in 1..Len(trace[e]) :
        IsFailure(trace[e][i]) /\ trace[e][i].msg.text = text

\* the message of the last peer read before position i of e's trace
LastPeerIn(e, i) ==
    LET js == {j \in 1..(i - 1) : trace[e][j].ch = "peer_in"}
    IN  trace[e][CHOOSE j \in js : \A k \in js : k <= j].msg

\* the signatures engine e has itself sent to the peer before position i
OwnSigsSent(e, i) ==
    {trace[e][j].msg.signature : j \in {k \in 1..(i - 1) :
        /\ trace[e][k].ch \in {"peer_out", "peer_write_failed"}
        /\ trace[e][k].msg.type \in {"funding_created", "funding_signed"}}}

(***************************************************************************)
(* C1 (SpecPair).  A funder engine and a fundee engine with distinct       *)
(* seeds, good configurations and well-formed supervisor commands: neither *)
(* engine fails with the bad-signature error.                              *)
(***************************************************************************)
C1_NoBadSignature ==
    st["funder"].seed # st["fundee"].seed
        => \A e \in DOMAIN pc : ~FailedSaying(e, "Bad signature")

(***************************************************************************)
(* C2 (Spec).  Every accept_channel the engine writes carries, as          *)
(* first_per_commitment_point, the engine's own next_per_commit[LOCAL].    *)
(***************************************************************************)
C2_AcceptCarriesOwnPoint ==
    \A e \in DOMAIN pc : \A i \in 1..Len(trace[e]) :
        (/\ trace[e][i].ch \in {"peer_out", "peer_write_failed"}
         /\ trace[e][i].msg.type = "accept_channel")
            => trace[e][i].msg.first_per_commitment_point
                   = st[e].next_per_commit[LOCAL_SIDE]

(***************************************************************************)
(* C3 (SpecPair).  Once the funder and the fundee have both emitted their  *)
(* terminal success, they hold the same funding_txid, funding_txout,       *)
(* funding_satoshis, push_msat, feerate_per_kw and temporary channel id,   *)
(* and the outpoint the fundee reports in accept_resp is the funder's.     *)
(***************************************************************************)
C3_SidesAgree ==
    (Succeeded("funder") /\ Succeeded("fundee")) =>
        LET f == st["funder"]
            g == st["fundee"]
        IN  /\ f.funding_txid = g.funding_txid
            /\ f.funding_txout = g.funding_txout
            /\ f.funding_satoshis = g.funding_satoshis
            /\ f.push_msat = g.push_msat
            /\ f.feerate_per_kw = g.feerate_per_kw
            /\ f.tmpid = g.tmpid
            /\ \A i \in SuccessIdx("fundee") :
                   /\ trace["fundee"][i].msg.funding_txid = f.funding_txid
                   /\ trace["fundee"][i].msg.funding_txout = f.funding_txout

\* Both engines have emitted their success, over an outpoint whose index
\* did not fit the u8 of struct state.
C3_BothSucceeded ==
    /\ Succeeded("funder")
    /\ Succeeded("fundee")
    /\ st["funder"].funding_txout = 1

(***************************************************************************)
(* C4 (Spec).  The signature in a terminal success result is the one       *)
(* received in the peer's last message (funding_signed for the funder,     *)
(* funding_created for the fundee), is none of the signatures the engine   *)
(* sent itself, and is a signature by the peer's funding key over the      *)
(* engine's LOCAL first commitment tx built with next_per_commit[LOCAL].   *)
(***************************************************************************)
C4_ResultCarriesVerifiedPeerSig ==
    \A e \in DOMAIN pc : \A i \in SuccessIdx(e) :
        LET r == trace[e][i].msg
            m == LastPeerIn(e, i)
            s == st[e]
        IN  /\ m.type = IF s.role = "funder" THEN "funding_signed"
                                             ELSE "funding_created"
            /\ r.type = IF s.role = "funder" THEN "opening_open_funding_resp"
                                             ELSE "opening_accept_resp"
            /\ r.sig = m.signature
            /\ r.sig \notin OwnSigsSent(e, i)
            /\ r.sig.signer = s.theirs.funding_pubkey
            /\ r.sig.signer # s.our_points.funding_pubkey
            /\ r.sig.wscript = {s.our_points.funding_pubkey,
                                s.theirs.funding_pubkey}
            /\ r.sig.tx = channel_tx(s.channel,
                                     s.next_per_commit[LOCAL_SIDE],
                                     LOCAL_SIDE)
            /\ r.sig.tx.per_commit = s.next_per_commit[LOCAL_SIDE]

\* The fundee has emitted accept_resp after sending its own funding_signed.
C4_FundeeSucceeded ==
    /\ Succeeded("solo")
    /\ st["solo"].role = "fundee"
    /\ OwnSigsSent("solo", Len(trace["solo"])) # {}

(***************************************************************************)
(* C5 (Spec).  No message written to the supervisor or to the peer carries *)
(* the seed, the shaseed, a private key or a per-commitment secret.        *)
(***************************************************************************)
C5_NoSecretLeaves ==
    \A e \in DOMAIN pc : \A i \in 1..Len(trace[e]) :
        LET ev == trace[e][i]
        IN  (IsFailure(ev) \/ IsErrorFrame(ev))
                => \A k \in DOMAIN ev.msg.data :
                       ev.msg.data[k].type \notin SecretTypes

(***************************************************************************)
(* C6 (Spec).  Every fdpass_send is preceded by a terminal success result, *)
(* whatever role-dispatch message the supervisor sent.                     *)
(***************************************************************************)
C6_HandbackAfterSuccess ==
    \A e \in DOMAIN pc : \A i \in 1..Len(trace[e]) :
        trace[e][i].ch = "fdpass"
            => \E j \in 1..(i - 1) : IsSuccess(trace[e][j])

(***************************************************************************)
(* C7 (Spec).  A read from the supervisor that returns nothing, or a       *)
(* message that is not the expected command, is followed at once by        *)
(* status_failed(BAD_COMMAND), which ends the run.                         *)
(***************************************************************************)
C7_BadCommandOnBadRead ==
    \A e \in DOMAIN pc : \A i \in 1..Len(trace[e]) :
        (trace[e][i].ch = "req_in" /\ trace[e][i].msg \in {NullMsg, Garbage})
            => /\ pc[e] = "failed"
               /\ Len(trace[e]) = i + 1
               /\ IsFailure(trace[e][i + 1])
               /\ trace[e][i + 1].msg.code = "BAD_COMMAND"

(***************************************************************************)
(* C8 (Spec).  A run that met a local failure (a supervisor read that      *)
(* returned nothing or no expected command, or a key derivation failure)   *)
(* has written no error frame to the peer.                                 *)
(***************************************************************************)
C8_NoPeerErrorOnLocalFailure ==
    \A e \in DOMAIN pc :
        (\/ FailedWith(e, "KEY_DERIVATION_FAILED")
         \/ \E i \in 1..Len(trace[e]) :
                /\ trace[e][i].ch = "req_in"
                /\ trace[e][i].msg \in {NullMsg, Garbage})
            => \A j \in 1..Len(trace[e]) : ~IsErrorFrame(trace[e][j])

(***************************************************************************)
(* C9 (Spec).  A run that has exited with code 0 ran exactly one of the    *)
(* funder and fundee paths and emitted exactly one terminal success; a run *)
(* that failed has a nonzero exit code and a failure status as its last    *)
(* output.                                                                 *)
(***************************************************************************)
C9_ExitZeroOnlyAfterSuccess ==
    \A e \in DOMAIN pc :
        /\ (pc[e] = "exited" \/ exit_code[e] = 0)
               => /\ pc[e] = "exited"
                  /\ exit_code[e] = 0
                  /\ Cardinality(SuccessIdx(e)) = 1
                  /\ st[e].role \in {"funder", "fundee"}
        /\ pc[e] = "failed"
               => /\ exit_code[e] > 0
                  /\ SuccessIdx(e) = {}
                  /\ IsFailure(trace[e][Len(trace[e])])

(***************************************************************************)
(* C10 (Spec).  As funder, the protocol messages on the peer stream are a  *)
(* prefix of: write open_channel, read, write funding_created, read.  The  *)
(* only other peer traffic is the one error frame of a failing run, which  *)
(* comes last.  funding_created is written only after an accept_channel    *)
(* that passed every check was read, open_resp was emitted and             *)
(* open_funding was read, in this order; the success result is emitted     *)
(* only after funding_signed was read.                                     *)
(***************************************************************************)
PeerEvents(e) ==
    SelectSeq(trace[e], LAMBDA ev :
        ev.ch \in {"peer_out", "peer_in", "peer_write_failed"})

ProtoEvents(e) == SelectSeq(PeerEvents(e), LAMBDA ev : ~IsErrorFrame(ev))

C11_BadParamBeforePeerIO ==
    \A e \in DOMAIN pc :
        (/\ st[e].role = "funder"
         /\ \/ U64Ge(st[e].funding_satoshis, U64(FundingLimit))
            \/ U64Lt(U64MulSmall(st[e].funding_satoshis, 1000),
                     st[e].push_msat))
            => /\ pc[e] = "failed"
               /\ FailedWith(e, "BAD_PARAM")
               /\ PeerEvents(e) = <<>>

(***************************************************************************)
(* C12 (Spec).  funding_satoshis >= 2^24 or push_msat > 1000 *             *)
(* funding_satoshis makes the funder fail with BAD_PARAM and the fundee    *)
(* (values of the received open_channel) with PEER_BAD_FUNDING; any other  *)
(* values, the boundaries 2^24 - 1 and 1000 * funding_satoshis among them, *)
(* pass these two checks in both roles.                                    *)
(***************************************************************************)
FundingOutOfBounds(s) ==
    \/ ~U64Lt(s.funding_satoshis, U64(16777216))
    \/ U64Lt(U64MulSmall(s.funding_satoshis, 1000), s.push_msat)

C12_FundingBounds ==
    \A e \in DOMAIN pc :
        /\ st[e].role = "funder" =>
               IF FundingOutOfBounds(st[e])
               THEN /\ pc[e] = "failed"
                    /\ FailedWith(e, "BAD_PARAM")
                    /\ \/ FailedSaying(e, "funding_satoshis must be < 2^24")
                       \/ FailedSaying(e, "push-msat must be <")
               ELSE /\ ~FailedSaying(e, "funding_satoshis must be < 2^24")
                    /\ ~FailedSaying(e, "push-msat must be <")
                    /\ Len(ProtoEvents(e)) >= 1
                    /\ ProtoEvents(e)[1].msg.type = "open_channel"
        /\ (st[e].role = "fundee"
            /\ ~FailedWith(e, "PEER_BAD_INITIAL_MESSAGE")) =>
               IF FundingOutOfBounds(st[e])
               THEN /\ pc[e] = "failed"
                    /\ FailedWith(e, "PEER_BAD_FUNDING")
                    /\ \/ FailedSaying(e, "funding_satoshis too large")
                       \/ FailedSaying(e, "push_msat too large")
               ELSE /\ ~FailedSaying(e, "funding_satoshis too large")
                    /\ ~FailedSaying(e, "push_msat too large")

\* The fundee has passed the checks with both values on their boundary.
C12_FundeeOnBoundary ==
    /\ pc["solo"] = "E_read_created"
    /\ st["solo"].funding_satoshis = U64(16777215)
    /\ st["solo"].push_msat = U64MulSmall(U64(16777215), 1000)

(***************************************************************************)
(* check_config_bounds on its own.  SpecBounds starts an engine in a state *)
(* of the kind the function is called in (funding_satoshis < 2^24 and the  *)
(* local reserve already set by set_reserve, opening.c:268 and 556) and    *)
(* applies the function to one remoteconf.                                 *)
(***************************************************************************)
BoundsFundings == {U64(1000), U64(1000000), U64(FundingLimit - 1)}

BoundsMaxDelays == {144, 1008}

BoundsMinCapacities == {U64(0), U64(990000), U64(990001)}

BoundsConfs ==
    {Conf(U64(546), inflight, reserve, htlcmin, delay, maxhtlcs, 3) :
        inflight \in {U64(989999), U64(990000), U64(1000000000)},
        reserve \in {U64(0), U64(10), U64(11), U64(1000), U64(1001)},
        htlcmin \in {0, 989, 990, 991},
        delay \in {144, 145, 1008, 1009},
        maxhtlcs \in {0, 1, 511, 512}}

InitBounds ==
    \E f \in BoundsFundings, d \in BoundsMaxDelays,
       m \in BoundsMinCapacities :
        /\ pc = [e \in {"solo"} |-> "check_config_bounds"]
        /\ st = [e \in {"solo"} |->
                   [InitState EXCEPT
                       !.funding_satoshis = f,
                       !.localconf.channel_reserve_satoshis = set_reserve(f),
                       !.max_to_self_delay = d,
                       !.min_effective_htlc_capacity_msat = m]]
        /\ trace = [e \in {"solo"} |-> <<>>]
        /\ exit_code = [e \in {"solo"} |-> -1]

CheckBounds(e, remoteconf) ==
    /\ pc[e] = "check_config_bounds"
    /\ LET s == [st[e] EXCEPT !.remoteconf = remoteconf]
           bad == check_config_bounds(s, remoteconf)
       IN  IF bad # ""
           THEN Fail(e, s, peer_failed("PEER_BAD_CONFIG", bad, <<>>))
           ELSE Goto(e, "bounds_ok", s, <<>>)

ApplyBounds == \E rc \in BoundsConfs : CheckBounds("solo", rc)

NextBounds == ApplyBounds

SpecBounds == InitBounds /\ [][NextBounds]_vars

\* the number a u64 stands for, 2^31 - 1 standing for everything above it
ToNat(u) ==
    IF u[4] = 0 /\ u[3] = 0 /\ u[2] < 32768
    THEN u[1] + Base * u[2]
    ELSE 2147483647

Max(a, b) == IF a >= b THEN a ELSE b

(***************************************************************************)
(* C13 (SpecBounds).  check_config_bounds lets the negotiation continue    *)
(* exactly when to_self_delay <= max_to_self_delay, the remote reserve is  *)
(* <= funding_satoshis, htlc_minimum_msat * 1000 <= capacity_msat,         *)
(* capacity_msat >= min_effective_htlc_capacity_msat and max_accepted_htlcs*)
(* is in 1..511, with capacity_msat = min(1000 * (funding - max(remote     *)
(* reserve, local reserve)), max_htlc_value_in_flight_msat); otherwise it  *)
(* fails with PEER_BAD_CONFIG.  The comparisons with capacity_msat are     *)
(* stated in satoshi, each against both arguments of the min.              *)
(***************************************************************************)
C13_BoundsHold(s) ==
    LET rc == s.remoteconf
        f == ToNat(s.funding_satoshis)
        rres == ToNat(rc.channel_reserve_satoshis)
        r == Max(rres, ToNat(s.localconf.channel_reserve_satoshis))
        inflight == ToNat(rc.max_htlc_value_in_flight_msat)
        m == ToNat(s.min_effective_htlc_capacity_msat)
    IN  /\ rc.to_self_delay <= s.max_to_self_delay
        /\ rres <= f
        /\ rc.htlc_minimum_msat <= f - r
        /\ rc.htlc_minimum_msat <= inflight \div 1000
        /\ f - r >= (m + 999) \div 1000
        /\ inflight >= m
        /\ rc.max_accepted_htlcs >= 1
        /\ rc.max_accepted_htlcs <= 511

C13_ConfigBoundsIff ==
    \A e \in DOMAIN pc :
        /\ pc[e] = "bounds_ok" => C13_BoundsHold(st[e])
        /\ pc[e] = "failed" =>
              /\ ~C13_BoundsHold(st[e])
              /\ FailedWith(e, "PEER_BAD_CONFIG")
              /\ exit_code[e] = 1

\* Accepted with the local reserve deciding the capacity, htlc_minimum_msat
\* and the capacity floor both exactly on it.
C13_AcceptedOnLocalReserve ==
    /\ pc["solo"] = "bounds_ok"
    /\ st["solo"].funding_satoshis = U64(1000)
    /\ st["solo"].remoteconf.channel_reserve_satoshis = U64(0)
    /\ st["solo"].remoteconf.htlc_minimum_msat = 990
    /\ st["solo"].min_effective_htlc_capacity_msat = U64(990000)

(***************************************************************************)
(* C14 (Spec).  Whenever an engine has emitted its success result, in      *)
(* either role: funding_satoshis < 2^24, push_msat <= 1000 *               *)
(* funding_satoshis, remoteconf.max_accepted_htlcs is in 1..511,           *)
(* remoteconf.to_self_delay <= max_to_self_delay, and the effective HTLC   *)
(* capacity min(1000 * (funding - highest reserve), remote                 *)
(* max_htlc_value_in_flight_msat) is >= min_effective_htlc_capacity_msat.  *)
(***************************************************************************)
C14_SuccessWithinBounds ==
    \A e \in DOMAIN pc : Succeeded(e) =>
        LET s == st[e]
            rc == s.remoteconf
            f == ToNat(s.funding_satoshis)
            r == Max(ToNat(rc.channel_reserve_satoshis),
                     ToNat(s.localconf.channel_reserve_satoshis))
            m == ToNat(s.min_effective_htlc_capacity_msat)
        IN  /\ s.role \in {"funder", "fundee"}
            /\ f < 16777216
            /\ ~U64Lt(U64MulSmall(s.funding_satoshis, 1000), s.push_msat)
            /\ rc.max_accepted_htlcs \in 1..511
            /\ rc.to_self_delay <= s.max_to_self_delay
            /\ f - r >= (m + 999) \div 1000
            /\ ToNat(rc.max_htlc_value_in_flight_msat) >= m

\* The funder has succeeded with funding and push both on their limit.
C14_FunderSucceededOnLimits ==
    /\ Succeeded("solo")
    /\ st["solo"].role = "funder"
    /\ st["solo"].funding_satoshis = U64(16777215)
    /\ st["solo"].push_msat = U64MulSmall(U64(16777215), 1000)

(***************************************************************************)
(* C15 (Spec).  For funding_satoshis below 2^24 and whatever reserve the   *)
(* supervisor gave in init, the                                            *)
(* channel_reserve_satoshis in the engine's own open_channel or            *)
(* accept_channel, in localconf once set_reserve has run, and in the local *)
(* configuration of the channel handle, is funding_satoshis / 100 rounded  *)
(* up: 99 -> 1, 100 -> 1, 101 -> 2, 200 -> 2.                              *)
(***************************************************************************)
Ceil100(f) == f \div 100 + (IF f % 100 = 0 THEN 0 ELSE 1)

C15_ReserveIsOnePercentUp ==
    \A e \in DOMAIN pc : U64Lt(st[e].funding_satoshis, U64(16777216)) =>
        LET s == st[e]
            want == U64(Ceil100(ToNat(s.funding_satoshis)))
            own == {i \in 1..Len(trace[e]) :
                      /\ trace[e][i].ch \in {"peer_out", "peer_write_failed"}
                      /\ trace[e][i].msg.type
                            \in {"open_channel", "accept_channel"}}
        IN  /\ \A i \in own : trace[e][i].msg.channel_reserve_satoshis = want
            /\ (\/ s.role = "funder"
                \/ own # {}
                \/ FailedWith(e, "PEER_BAD_CONFIG"))
                   => s.localconf.channel_reserve_satoshis = want
            /\ s.channel # NoChannel
                   => s.channel.config.LOCAL.channel_reserve_satoshis = want
            /\ \A p \in {<<99, 1>>, <<100, 1>>, <<101, 2>>, <<200, 2>>} :
                   (s.funding_satoshis = U64(p[1]) /\ own # {})
                       => \A i \in own :
                             trace[e][i].msg.channel_reserve_satoshis
                                 = U64(p[2])

\* A fundee that accepted a channel of 101 satoshi has built its channel
\* handle, for an init message whose reserve was 0.
C15_FundeeChannelOf101 ==
    /\ st["solo"].role = "fundee"
    /\ st["solo"].funding_satoshis = U64(101)
    /\ st["solo"].channel # NoChannel
    /\ st["solo"].channel.config.LOCAL.channel_reserve_satoshis = U64(2)

(***************************************************************************)
(* C16 (Spec).  A fundee whose open_channel parsed and passed the funding  *)
(* checks goes on past the feerate check exactly when min_feerate <=       *)
(* feerate_per_kw <= max_feerate, both bounds included; outside that range *)
(* (min_feerate - 1 and max_feerate + 1 among the values) it fails with    *)
(* PEER_BAD_FUNDING and no accept_channel is written.                      *)
(***************************************************************************)
AcceptChannelWritten(e) ==
    \E i \in 1..Len(trace[e]) :
        /\ trace[e][i].ch \in {"peer_out", "peer_write_failed"}
        /\ trace[e][i].msg.type = "accept_channel"

C16_FeerateInclusive ==
    \A e \in DOMAIN pc :
        (/\ st[e].role = "fundee"
         /\ ~FailedWith(e, "PEER_BAD_INITIAL_MESSAGE")
         /\ ~FundingOutOfBounds(st[e])) =>
            IF /\ st[e].min_feerate <= st[e].feerate_per_kw
               /\ st[e].feerate_per_kw <= st[e].max_feerate
            THEN /\ ~FailedWith(e, "PEER_BAD_FUNDING")
                 /\ \/ AcceptChannelWritten(e)
                    \/ FailedWith(e, "PEER_BAD_CONFIG")
            ELSE /\ pc[e] = "failed"
                 /\ FailedWith(e, "PEER_BAD_FUNDING")
                 /\ \/ FailedSaying(e, "feerate_per_kw below minimum")
                    \/ FailedSaying(e, "feerate_per_kw above maximum")
                 /\ ~AcceptChannelWritten(e)

\* accept_channel went out for a feerate equal to max_feerate
C16_AcceptedAtMaxFeerate ==
    /\ pc["solo"] = "E_read_created"
    /\ st["solo"].feerate_per_kw = st["solo"].max_feerate
    /\ AcceptChannelWritten("solo")

(***************************************************************************)
(* C17 (Spec).  When the funder reads an accept_channel or funding_signed, *)
(* or the fundee a funding_created, whose temporary channel id is not the  *)
(* one of this negotiation's open_channel, the engine fails with           *)
(* PEER_READ_FAILED, writes no protocol message after that read (the       *)
(* error frame of the failure aside) and emits no success result.          *)
(***************************************************************************)
\* the temporary channel id of the open_channel of e's negotiation: of the
\* one e wrote as funder, or of the one handed to e as fundee
OpenChannelIds(e) ==
    {trace[e][i].msg.temporary_channel_id : i \in
        {j \in 1..Len(trace[e]) :
            /\ trace[e][j].ch = "peer_out"
            /\ trace[e][j].msg.type = "open_channel"}}
    \cup {trace[e][i].msg.peer_msg.temporary_channel_id : i \in
        {j \in 1..Len(trace[e]) :
            /\ trace[e][j].ch = "req_in"
            /\ trace[e][j].msg.type = "opening_accept"
            /\ trace[e][j].msg.peer_msg.type = "open_channel"}}

\* positions of e's trace where a message of the dialogue was read with an
\* id that is not the negotiation's
IdMismatches(e) ==
    {i \in 1..Len(trace[e]) :
        /\ trace[e][i].ch = "peer_in"
        /\ \/ /\ st[e].role = "funder"
              /\ trace[e][i].msg.type \in {"accept_channel", "funding_signed"}
           \/ /\ st[e].role = "fundee"
              /\ trace[e][i].msg.type = "funding_created"
        /\ trace[e][i].msg.temporary_channel_id \notin OpenChannelIds(e)}

C17_IdMismatchEndsRun ==
    \A e \in DOMAIN pc : \A i \in IdMismatches(e) :
        /\ pc[e] = "failed"
        /\ FailedWith(e, "PEER_READ_FAILED")
        /\ ~Succeeded(e)
        /\ \A j \in (i + 1)..Len(trace[e]) :
              trace[e][j].ch \in {"peer_out", "peer_write_failed"}
                  => IsErrorFrame(trace[e][j])

\* A funder read a funding_signed carrying another id, after it had sent
\* funding_created.
C17_FunderReadForeignSigned ==
    \E i \in IdMismatches("solo") :
        /\ st["solo"].role = "funder"
        /\ trace["solo"][i].msg.type = "funding_signed"

(***************************************************************************)
(* C18 (Spec).  After its success result the engine hands the peer         *)
(* descriptor back before it reads from the supervisor again, and stays    *)
(* until that read: it has exit code 0 only when the message read there    *)
(* was exit_req, and any other message, or a failed read, ends the run     *)
(* with BAD_COMMAND and a nonzero exit code.                               *)
(***************************************************************************)
C18_ExitOnlyOnExitReq ==
    \A e \in DOMAIN pc :
        /\ \A i \in SuccessIdx(e) :
              LET t == trace[e]
                  reads == {j \in (i + 1)..Len(t) : t[j].ch = "req_in"}
              IN  /\ i < Len(t)
                  /\ t[i + 1].ch = "fdpass"
                  /\ reads = {} => /\ pc[e] = "read_exit"
                                   /\ exit_code[e] = -1
                  /\ \A j \in reads :
                        IF t[j].msg.type = "opening_exit_req"
                        THEN /\ pc[e] = "exited"
                             /\ exit_code[e] = 0
                             /\ j = Len(t)
                        ELSE /\ pc[e] = "failed"
                             /\ exit_code[e] > 0
                             /\ j + 1 = Len(t)
                             /\ IsFailure(t[j + 1])
                             /\ t[j + 1].msg.code = "BAD_COMMAND"
        /\ exit_code[e] = 0 =>
              /\ Len(trace[e]) >= 2
              /\ trace[e][Len(trace[e])].ch = "req_in"
              /\ trace[e][Len(trace[e])].msg.type = "opening_exit_req"
              /\ trace[e][Len(trace[e]) - 1].ch = "fdpass"

\* A fundee that succeeded was sent something else than exit_req and ended
\* with BAD_COMMAND.
C18_FundeeRefusedOtherMessage ==
    /\ Succeeded("solo")
    /\ st["solo"].role = "fundee"
    /\ trace["solo"][Len(trace["solo"]) - 1] = Ev("req_in", Garbage)
    /\ FailedWith("solo", "BAD_COMMAND")

(***************************************************************************)
(* C19 (Spec).  Every funding_signed a fundee writes comes right after the *)
(* read of a funding_created that carries the negotiation's temporary      *)
(* channel id and a signature by the funder's funding key over the         *)
(* fundee's own LOCAL first commitment tx.  A funding_created with the     *)
(* right id whose signature is not that one ends the run with              *)
(* PEER_READ_FAILED, and no funding_signed is ever written.                *)
(***************************************************************************)
FundingSignedIdx(e) ==
    {i \in 1..Len(trace[e]) :
        /\ trace[e][i].ch \in {"peer_out", "peer_write_failed"}
        /\ trace[e][i].msg.type = "funding_signed"}

\* sig is the funder's signature over fundee e's LOCAL first commitment tx
FunderSignedLocalTx(e, sig) ==
    /\ sig.type = "sig"
    /\ sig.signer = st[e].theirs.funding_pubkey
    /\ sig.wscript = {st[e].our_points.funding_pubkey,
                      st[e].theirs.funding_pubkey}
    /\ st[e].channel # NoChannel
    /\ sig.tx = channel_tx(st[e].channel, st[e].next_per_commit[LOCAL_SIDE],
                           LOCAL_SIDE)

C19_FundingSignedAfterVerify ==
    \A e \in DOMAIN pc : st[e].role = "fundee" =>
        /\ \A i \in FundingSignedIdx(e) :
              /\ i > 1
              /\ trace[e][i - 1].ch = "peer_in"
              /\ trace[e][i - 1].msg.type = "funding_created"
              /\ trace[e][i - 1].msg.temporary_channel_id
                     \in OpenChannelIds(e)
              /\ FunderSignedLocalTx(e, trace[e][i - 1].msg.signature)
        /\ \A j \in 1..Len(trace[e]) :
              (/\ trace[e][j].ch = "peer_in"
               /\ trace[e][j].msg.type = "funding_created"
               /\ trace[e][j].msg.temporary_channel_id \in OpenChannelIds(e)
               /\ ~FunderSignedLocalTx(e, trace[e][j].msg.signature))
                  => /\ pc[e] = "failed"
                     /\ FailedWith(e, "PEER_READ_FAILED")
                     /\ FailedSaying(e, "Bad signature")
                     /\ FundingSignedIdx(e) = {}

\* A fundee has written funding_signed.
C19_FundingSignedWritten ==
    /\ st["solo"].role = "fundee"
    /\ \E i \in FundingSignedIdx("solo") : trace["solo"][i].ch = "peer_out"
    /\ pc["solo"] = "read_exit"

(***************************************************************************)
(* C20 (Spec).  Every open_resp a funder emits comes right after the read  *)
(* of an accept_channel that echoes the temporary channel id of its        *)
(* open_channel, has minimum_depth <= max_minimum_depth and satisfies      *)
(* every condition of the parameter validator; a run whose accept_channel  *)
(* fails one of these emits no open_resp.                                  *)
(***************************************************************************)
OpenRespIdx(e) ==
    {i \in 1..Len(trace[e]) :
        /\ trace[e][i].ch = "status"
        /\ trace[e][i].msg.type = "opening_open_resp"}

\* accept_channel message m is acceptable to funder e
AcceptChannelOk(e, m) ==
    /\ m.temporary_channel_id \in OpenChannelIds(e)
    /\ \E k \in 1..Len(trace[e]) :
          /\ trace[e][k].ch = "req_in"
          /\ trace[e][k].msg.type = "opening_open"
          /\ m.minimum_depth <= trace[e][k].msg.max_minimum_depth
    /\ C13_BoundsHold([st[e] EXCEPT !.remoteconf =
           Conf(m.dust_limit_satoshis, m.max_htlc_value_in_flight_msat,
                m.channel_reserve_satoshis, m.htlc_minimum_msat,
                m.to_self_delay, m.max_accepted_htlcs, m.minimum_depth)])

C20_OpenRespAfterAcceptChecks ==
    \A e \in DOMAIN pc : st[e].role = "funder" =>
        /\ \A i \in OpenRespIdx(e) :
              /\ i > 1
              /\ trace[e][i - 1].ch = "peer_in"
              /\ trace[e][i - 1].msg.type = "accept_channel"
              /\ AcceptChannelOk(e, trace[e][i - 1].msg)
        /\ \A j \in 1..Len(trace[e]) :
              (/\ trace[e][j].ch = "peer_in"
               /\ trace[e][j].msg.type = "accept_channel"
               /\ ~AcceptChannelOk(e, trace[e][j].msg))
                  => /\ OpenRespIdx(e) = {}
                     /\ pc[e] = "failed"

\* A funder has emitted open_resp and waits for the funding transaction.
C20_OpenRespEmitted ==
    /\ pc["solo"] = "F_read_funding"
    /\ OpenRespIdx("solo") # {}
    /\ st["solo"].remoteconf = GoodConf

C22_OutputIndexPreserved ==
    \A e \in DOMAIN pc :
        LET t == trace[e]
        IN  \A i \in 1..Len(t) :
               /\ (/\ st[e].role = "fundee"
                   /\ t[i].ch = "peer_in"
                   /\ t[i].msg.type = "funding_created"
                   /\ st[e].channel # NoChannel)
                      => /\ st[e].channel.funding_txout
                               = t[i].msg.funding_output_index
                         /\ \A j \in SuccessIdx(e) :
                               t[j].msg.funding_txout
                                   = t[i].msg.funding_output_index
               /\ (/\ st[e].role = "funder"
                   /\ t[i].ch = "req_in"
                   /\ t[i].msg.type = "opening_open_funding")
                      => \A j \in (i + 1)..Len(t) :
                            (/\ t[j].ch \in {"peer_out", "peer_write_failed"}
                             /\ t[j].msg.type = "funding_created")
                                => t[j].msg.funding_output_index
                                       = t[i].msg.funding_txout

(***************************************************************************)
(* C23 (Spec).  When check_config_bounds has got as far as the capacity    *)
(* computation, in either role, funding_satoshis is below 2^24 and both    *)
(* reserves are at most funding_satoshis, the local one being              *)
(* funding_satoshis / 100 rounded up; so none of the three products by     *)
(* 1000 wraps, the subtraction does not go below zero, and its result is   *)
(* exactly 1000 * (funding_satoshis - highest reserve).                    *)
(***************************************************************************)
\* check_config_bounds was called in e's run and passed its first two tests
CapacityComputed(e) ==
    \/ AcceptChannelWritten(e)
    \/ OpenRespIdx(e) # {}
    \/ /\ FailedWith(e, "PEER_BAD_CONFIG")
       /\ ~FailedSaying(e, "to_self_delay larger than max")
       /\ ~FailedSaying(e, "Invalid channel_reserve_satoshis")

C23_CapacityArithmeticExact ==
    \A e \in DOMAIN pc : CapacityComputed(e) =>
        LET f == st[e].funding_satoshis
            rres == st[e].remoteconf.channel_reserve_satoshis
            lres == st[e].localconf.channel_reserve_satoshis
            fmsat == U64MulSmall(f, 1000)
            rmsat == U64MulSmall(rres, 1000)
            lmsat == U64MulSmall(lres, 1000)
            reserve_msat == IF U64Lt(rmsat, lmsat) THEN lmsat ELSE rmsat
            diff == U64Sub(fmsat, reserve_msat)
        IN  /\ U64Lt(f, U64(16777216))
            /\ ~U64Lt(f, rres)
            /\ ~U64Lt(f, lres)
            /\ ToNat(lres) = Ceil100(ToNat(f))
            \* the products are the mathematical ones
            /\ U64DivSmall(fmsat, 1000) = f
            /\ U64DivSmall(rmsat, 1000) = rres
            /\ U64DivSmall(lmsat, 1000) = lres
            \* the subtraction stays at or above zero and is exact
            /\ ~U64Lt(fmsat, reserve_msat)
            /\ U64MulSmall(U64DivSmall(diff, 1000), 1000) = diff
            /\ ToNat(U64DivSmall(diff, 1000))
                   = ToNat(f) - Max(ToNat(rres), ToNat(lres))

\* A fundee has computed the capacity of the largest channel there is, with
\* the local reserve above the remote one.
C23_LargestChannelComputed ==
    /\ st["solo"].role = "fundee"
    /\ CapacityComputed("solo")
    /\ st["solo"].funding_satoshis = U64(16777215)
    /\ st["solo"].localconf.channel_reserve_satoshis = U64(167773)

(***************************************************************************)
(* Specification with progress: a read the engine blocks in is eventually  *)
(* answered, by a message or by the end of the stream, so a step that is   *)
(* possible is eventually taken.                                           *)
(***************************************************************************)
SpecLive == Init /\ [][Next]_vars /\ WF_vars(Next)

Terminated(e) == pc[e] \in {"exited", "failed"}

Count(e, chs) ==
    Cardinality({i \in 1..Len(trace[e]) : trace[e][i].ch \in chs})

\* writes to the peer stream, attempted ones included
PeerSends(e) == Count(e, {"peer_out", "peer_write_failed"})

ErrorFrames(e) ==
    Cardinality({i \in 1..Len(trace[e]) : IsErrorFrame(trace[e][i])})

(***************************************************************************)
(* C24 as claimed (SpecLive).  Every run terminates, by exit or by a       *)
(* failure, and writes to the peer at most twice, reads from the peer at   *)
(* most twice and reads from the supervisor at most four times.            *)
(***************************************************************************)
C24_TwoPeerSends ==
    /\ [](\A e \in DOMAIN pc :
             /\ PeerSends(e) <= 2
             /\ Count(e, {"peer_in"}) <= 2
             /\ Count(e, {"req_in"}) <= 4)
    /\ <>(\A e \in DOMAIN pc : Terminated(e))

(***************************************************************************)
(* C24 amended (SpecLive).  Every run terminates, by exit or by a failure, *)
(* and sends at most two messages of the dialogue to the peer, which a     *)
(* failing run may follow with one error frame as its last write (three    *)
(* writes at most), reads from the peer at most twice and reads from the   *)
(* supervisor at most four times.                                          *)
(***************************************************************************)
C24_TerminatesWithinBounds ==
    /\ [](\A e \in DOMAIN pc :
             /\ PeerSends(e) - ErrorFrames(e) <= 2
             /\ ErrorFrames(e) <= 1
             /\ ErrorFrames(e) = 1 => pc[e] = "failed"
             /\ PeerSends(e) <= 3
             /\ Count(e, {"peer_in"}) <= 2
             /\ Count(e, {"req_in"}) <= 4)
    /\ <>(\A e \in DOMAIN pc : Terminated(e))

\* A funder has exited after two sends, two receives and four reads from
\* the supervisor.
C24_FunderExitedAtTheBounds ==
    /\ pc["solo"] = "exited"
    /\ PeerSends("solo") = 2
    /\ Count("solo", {"peer_in"}) = 2
    /\ Count("solo", {"req_in"}) = 4

====
